---- MODULE Spec2Model ----
(***************************************************************************)
(* A model of gits-statuses: run.py (the standalone report) and            *)
(* gitStatus.py (the menu-bar plugin).  Strings are TLA+ strings, Python   *)
(* lists are sequences, a GitRepository is a record of its fields.         *)
(***************************************************************************)
EXTENDS Integers, Sequences, FiniteSets, TLC

VARIABLES
    pc,            \* position of the running program
    variant,       \* "run" (run.py) or "gitStatus" (gitStatus.py)
    args,          \* parsed command line: [path, detailed]
    tree,          \* the file system below the scan root
    repositories,  \* GitScanner.repositories; the formatter's input list
    todo,          \* entries of scan_path.iterdir() not yet visited
    queries,       \* external git queries issued so far, in order: [cwd, cmd]
    git,           \* what the git executable answers to each query of an inspection
    repo,          \* result of the last GitRepository(path) call
    out            \* what the program has produced: table, lines, stderr, exit code

vars == <<pc, variant, args, tree, repositories, todo, queries, git, repo, out>>

-----------------------------------------------------------------------------
(* Bounds of the model *)

\* longest formatter input list
MaxRepos == 2
\* longest `git status --porcelain` output, in characters
MaxListingLen == 6
\* most entries below the scan root
MaxChildren == 2

-----------------------------------------------------------------------------
(* Python built-ins used by the program *)

Max2(a, b) == IF a >= b THEN a ELSE b

RECURSIVE SeqMax(_)
\* max(...) over a non-empty sequence of integers
SeqMax(s) == IF Len(s) = 1 THEN s[1] ELSE Max2(s[1], SeqMax(Tail(s)))

RECURSIVE Repeat(_, _)
\* c * n (built by halving, so long runs stay shallow)
Repeat(c, n) ==
    IF n <= 0 THEN ""
    ELSE LET half == Repeat(c, n \div 2)
         IN half \o half \o (IF n % 2 = 1 THEN c ELSE "")

CharAt(s, i) == SubSeq(s, i, i)

RECURSIVE NatToStr(_)
NatToStr(n) == IF n < 10 THEN CharAt("0123456789", n + 1)
               ELSE NatToStr(n \div 10) \o CharAt("0123456789", (n % 10) + 1)

\* str(n) for an integer n
IntToStr(n) == IF n < 0 THEN "-" \o NatToStr(0 - n) ELSE NatToStr(n)

\* f"{s:<{w}}": left-justify in a field of at least w characters, never truncating
LJust(s, w) == IF Len(s) >= w THEN s ELSE s \o Repeat(" ", w - Len(s))

IsSpace(c) == c \in {" ", "\n", "\t"}

RECURSIVE LStrip(_)
LStrip(s) == IF Len(s) > 0 /\ IsSpace(CharAt(s, 1))
             THEN LStrip(SubSeq(s, 2, Len(s))) ELSE s

RECURSIVE RStrip(_)
RStrip(s) == IF Len(s) > 0 /\ IsSpace(CharAt(s, Len(s)))
             THEN RStrip(SubSeq(s, 1, Len(s) - 1)) ELSE s

\* s.strip()
Strip(s) == RStrip(LStrip(s))

RECURSIVE Split(_, _)
\* s.split(sep): the pieces of s between the occurrences of sep, at least one piece
Split(s, sep) ==
    LET at == {i \in 1..(Len(s) - Len(sep) + 1) : SubSeq(s, i, i + Len(sep) - 1) = sep}
    IN IF at = {} THEN <<s>>
       ELSE LET first == CHOOSE i \in at : \A j \in at : i <= j
            IN <<SubSeq(s, 1, first - 1)>>
               \o Split(SubSeq(s, first + Len(sep), Len(s)), sep)

\* s.split('\n')
SplitLines(s) == Split(s, "\n")

RECURSIVE JoinLines(_)
\* "\n".join(lines)
JoinLines(lines) ==
    IF Len(lines) = 0 THEN ""
    ELSE IF Len(lines) = 1 THEN lines[1]
    ELSE lines[1] \o "\n" \o JoinLines(Tail(lines))

\* line[:2]
Prefix2(line) == SubSeq(line, 1, IF Len(line) < 2 THEN Len(line) ELSE 2)

-----------------------------------------------------------------------------
(* run.py: class TableFormatter *)

NoReposMessage == "No Git repositories found."
NoChangesMessage ==
    "No Git repositories with changes found. Use --detailed to see all repositories."

\* the filter of the standard view
IsActiveDropsUntracked(r) ==
    r.ahead_count > 0 \/ r.behind_count > 0 \/ r.changed_count > 0
IsActive(r) ==
    \/ r.ahead_count > 0
    \/ r.behind_count > 0
    \/ r.changed_count > 0
    \/ r.untracked_count > 0

\* display_repositories
DisplayRepositoriesUnfiltered(repos, show_url) == repos
DisplayRepositories(repos, show_url) ==
    IF show_url THEN repos ELSE SelectSeq(repos, IsActive)

\* ahead_str, behind_str, changed_str, untracked_str: the same expression in both views
CountStrLiteral(n) == IntToStr(n)
CountStr(n) == IF n > 0 THEN IntToStr(n) ELSE ""

\* len(str(count)) if count > 0 else 0
CountLen(n) == IF n > 0 THEN Len(IntToStr(n)) ELSE 0

\* the cell strings of one row, by column
Cells(r) ==
    [name      |-> r.name,
     branch    |-> r.branch,
     ahead     |-> CountStr(r.ahead_count),
     behind    |-> CountStr(r.behind_count),
     changed   |-> CountStr(r.changed_count),
     untracked |-> CountStr(r.untracked_count),
     commits   |-> IntToStr(r.total_commits),
     url       |-> r.remote_url]

Labels ==
    [name      |-> "Repository",
     branch    |-> "Branch",
     ahead     |-> "Ahead",
     behind    |-> "Behind",
     changed   |-> "Changed",
     untracked |-> "Untracked",
     commits   |-> "Total Commits",
     url       |-> "Remote URL"]

\* the columns of a view, left to right
Columns(show_url) ==
    IF show_url
    THEN <<"name", "branch", "ahead", "behind", "changed", "untracked", "commits", "url">>
    ELSE <<"name", "branch", "ahead", "behind", "changed", "untracked">>

\* name_width .. untracked_width, and commits_width, url_width of the detailed view
ColumnWidthsHeaderOnly(d, show_url) ==
    [c \in DOMAIN Labels |-> Len(Labels[c])]
ColumnWidths(d, show_url) ==
    LET over(F(_)) == SeqMax([i \in 1..Len(d) |-> F(d[i])])
        NameLen(r) == Len(r.name)
        BranchLen(r) == Len(r.branch)
        AheadLen(r) == CountLen(r.ahead_count)
        BehindLen(r) == CountLen(r.behind_count)
        ChangedLen(r) == CountLen(r.changed_count)
        UntrackedLen(r) == CountLen(r.untracked_count)
        CommitsLen(r) == Len(IntToStr(r.total_commits))
        UrlLen(r) == Len(r.remote_url)
    IN [name      |-> Max2(over(NameLen), Len("Repository")),
        branch    |-> Max2(over(BranchLen), Len("Branch")),
        ahead     |-> Max2(Max2(over(AheadLen), Len("Ahead")), Len("Ahead")),
        behind    |-> Max2(Max2(over(BehindLen), Len("Behind")), Len("Behind")),
        changed   |-> Max2(Max2(over(ChangedLen), Len("Changed")), Len("Changed")),
        untracked |-> Max2(Max2(over(UntrackedLen), Len("Untracked")), Len("Untracked")),
        commits   |-> IF show_url THEN Max2(over(CommitsLen), Len("Total Commits")) ELSE 0,
        url       |-> IF show_url THEN Max2(over(UrlLen), Len("Remote URL")) ELSE 0]

RECURSIVE JoinCols(_, _, _)
\* the f-string of a header or a row: the padded cells joined by " | "
JoinCols(cols, cell, w) ==
    IF Len(cols) = 0 THEN ""
    ELSE LJust(cell[cols[1]], w[cols[1]])
         \o (IF Len(cols) = 1 THEN "" ELSE " | " \o JoinCols(Tail(cols), cell, w))

HeaderLine(w, show_url) == JoinCols(Columns(show_url), Labels, w)

RowLine(r, w, show_url) == JoinCols(Columns(show_url), Cells(r), w)

\* "-" * len(header)
SeparatorShort(header) == Repeat("-", Len(header) - 1)
Separator(header) == Repeat("-", Len(header))

Message(text) ==
    [kind |-> "message", text |-> text, display |-> <<>>,
     widths |-> [c \in DOMAIN Labels |-> 0], rows |-> <<>>]

\* The returned string (text) with the locals it was built from.
format_repositories(repos, show_url) ==
    IF Len(repos) = 0 THEN Message(NoReposMessage)
    ELSE LET d == DisplayRepositories(repos, show_url)
         IN IF ~show_url /\ Len(d) = 0 THEN Message(NoChangesMessage)
            ELSE LET w == ColumnWidths(d, show_url)
                     header == HeaderLine(w, show_url)
                     rows == [i \in 1..Len(d) |-> RowLine(d[i], w, show_url)]
                 IN [kind |-> "table",
                     text |-> JoinLines(<<header, Separator(header)>> \o rows),
                     display |-> d, widths |-> w, rows |-> rows]

-----------------------------------------------------------------------------
(* class GitRepository: one external query and what the code makes of it *)

\* What subprocess.run(['git', ...], cwd=path, timeout=5) can do:
\*   ok       returncode 0, with stdout
\*   fail     returncode != 0
\*   timeout  subprocess.TimeoutExpired
\*   notfound FileNotFoundError
\*   denied   PermissionError of starting the process in cwd
\*   oserror  another OSError of starting the process (NotADirectoryError, ...)
\* No except clause of the class names the last two.
Ok(text) == [kind |-> "ok", stdout |-> text]
Fail == [kind |-> "fail", stdout |-> ""]
Timeout == [kind |-> "timeout", stdout |-> ""]
NotFound == [kind |-> "notfound", stdout |-> ""]
Denied == [kind |-> "denied", stdout |-> ""]
OsError == [kind |-> "oserror", stdout |-> ""]

\* the exceptions no except clause of the class catches
Escapes(resp) == resp.kind \in {"denied", "oserror"}
ExcOf(resp) == IF resp.kind = "denied" THEN "PermissionError" ELSE "OSError"

\* the exceptions every except clause of the class catches
Caught(resp) == resp.kind \in {"timeout", "notfound"}

\* the outcome of one method: its return value or an escaping exception, and the
\* commands it ran
Ret(val, cmds) == [raised |-> FALSE, exc |-> "", val |-> val, log |-> cmds]
Raise(resp, cmds) == [raised |-> TRUE, exc |-> ExcOf(resp), val |-> 0, log |-> cmds]

IsDigit(c) == c \in {"0", "1", "2", "3", "4", "5", "6", "7", "8", "9"}
DigitVal(c) == CHOOSE d \in 0..9 : CharAt("0123456789", d + 1) = c

RECURSIVE DigitsVal(_, _)
\* the value of a run of digits and single underscores, acc being the value so far
DigitsVal(s, acc) ==
    IF Len(s) = 0 THEN acc
    ELSE IF CharAt(s, 1) = "_" THEN DigitsVal(SubSeq(s, 2, Len(s)), acc)
    ELSE DigitsVal(SubSeq(s, 2, Len(s)), acc * 10 + DigitVal(CharAt(s, 1)))

\* the texts int() accepts after the sign: digits, single underscores between them
IsDigits(s) ==
    /\ Len(s) > 0
    /\ IsDigit(CharAt(s, 1))
    /\ IsDigit(CharAt(s, Len(s)))
    /\ \A i \in 1..Len(s) : IsDigit(CharAt(s, i)) \/ CharAt(s, i) = "_"
    /\ \A i \in 1..(Len(s) - 1) : ~(CharAt(s, i) = "_" /\ CharAt(s, i + 1) = "_")

\* int(text): [ok |-> FALSE] stands for ValueError
ParseInt(text) ==
    LET s == Strip(text)
        signed == Len(s) > 0 /\ CharAt(s, 1) \in {"+", "-"}
        body == IF signed THEN SubSeq(s, 2, Len(s)) ELSE s
    IN IF IsDigits(body)
       THEN [ok |-> TRUE,
             val |-> IF signed /\ CharAt(s, 1) = "-"
                     THEN 0 - DigitsVal(body, 0) ELSE DigitsVal(body, 0)]
       ELSE [ok |-> FALSE, val |-> 0]

\* return int(result.stdout.strip()), with `except ValueError: return 0`
IntOrZero(text) == IF ParseInt(text).ok THEN ParseInt(text).val ELSE 0

CmdInside == "rev-parse --is-inside-work-tree"
CmdBranch == "branch --show-current"
CmdRemote == "config --get remote.origin.url"
CmdUpstream == "rev-parse --abbrev-ref @{u}"
CmdStatus == "status --porcelain"
CmdTotal == "rev-list --count HEAD"
CmdAhead(upstream) == "rev-list --count " \o upstream \o "..HEAD"
CmdBehind(upstream) == "rev-list --count HEAD.." \o upstream

IsRevListRange(cmd) ==
    /\ Len(cmd) > Len("rev-list --count ")
    /\ SubSeq(cmd, 1, Len("rev-list --count ")) = "rev-list --count "
    /\ cmd # CmdTotal

_is_git_repository(g) ==
    IF Escapes(g.inside) THEN Raise(g.inside, <<CmdInside>>)
    ELSE IF Caught(g.inside) THEN Ret(FALSE, <<CmdInside>>)
    ELSE Ret(g.inside.kind = "ok" /\ Strip(g.inside.stdout) = "true", <<CmdInside>>)

_get_current_branch(g) ==
    IF Escapes(g.branch) THEN Raise(g.branch, <<CmdBranch>>)
    ELSE IF Caught(g.branch) THEN Ret("Unknown", <<CmdBranch>>)
    ELSE IF g.branch.kind = "ok"
         THEN Ret(IF Strip(g.branch.stdout) # "" THEN Strip(g.branch.stdout)
                  ELSE "HEAD detached", <<CmdBranch>>)
    ELSE Ret("Unknown", <<CmdBranch>>)

_get_remote_url(g) ==
    IF Escapes(g.remote) THEN Raise(g.remote, <<CmdRemote>>)
    ELSE IF Caught(g.remote) THEN Ret("No remote", <<CmdRemote>>)
    ELSE IF g.remote.kind = "ok" THEN Ret(Strip(g.remote.stdout), <<CmdRemote>>)
    ELSE Ret("No remote", <<CmdRemote>>)

\* the body shared by _get_ahead_count and _get_behind_count: the upstream query,
\* then, when it succeeded, the rev-list query cmd that names the range
CountAgainstUpstreamAlways(up, list, cmd) ==
    IF list.kind = "ok" THEN Ret(IntOrZero(list.stdout), <<CmdUpstream, cmd>>)
    ELSE Ret(0, <<CmdUpstream, cmd>>)
CountAgainstUpstream(up, list, cmd) ==
    IF Escapes(up) THEN Raise(up, <<CmdUpstream>>)
    ELSE IF Caught(up) THEN Ret(0, <<CmdUpstream>>)
    ELSE IF up.kind # "ok" THEN Ret(0, <<CmdUpstream>>)
    ELSE IF Escapes(list) THEN Raise(list, <<CmdUpstream, cmd>>)
    ELSE IF Caught(list) THEN Ret(0, <<CmdUpstream, cmd>>)
    ELSE IF list.kind = "ok" THEN Ret(IntOrZero(list.stdout), <<CmdUpstream, cmd>>)
    ELSE Ret(0, <<CmdUpstream, cmd>>)

\* upstream = upstream_result.stdout.strip()
UpstreamName(up) == Strip(up.stdout)

_get_ahead_count(g) ==
    CountAgainstUpstream(g.upstream_a, g.ahead, CmdAhead(UpstreamName(g.upstream_a)))

_get_behind_count(g) ==
    CountAgainstUpstream(g.upstream_b, g.behind, CmdBehind(UpstreamName(g.upstream_b)))

\* lines = result.stdout.strip().split('\n')
StatusLines(text) == SplitLines(Strip(text))

\* run.py: lines of two or more characters that do not start with '??'
ChangedExcludingUntrackedNoGuard(lines) ==
    Cardinality({i \in 1..Len(lines) : Prefix2(lines[i]) # "??"})
ChangedExcludingUntracked(lines) ==
    Cardinality({i \in 1..Len(lines) :
                   Len(lines[i]) >= 2 /\ Prefix2(lines[i]) # "??"})

\* gitStatus.py: len(lines)
ChangedAllLinesMinusUntracked(lines) ==
    Cardinality({i \in 1..Len(lines) : Prefix2(lines[i]) # "??"})
ChangedAllLines(lines) == Len(lines)

\* lines of two or more characters that start with '??'
UntrackedLines(lines) ==
    Cardinality({i \in 1..Len(lines) :
                   Len(lines[i]) >= 2 /\ Prefix2(lines[i]) = "??"})

_get_changed_count(g, v) ==
    IF Escapes(g.status_c) THEN Raise(g.status_c, <<CmdStatus>>)
    ELSE IF Caught(g.status_c) THEN Ret(0, <<CmdStatus>>)
    ELSE IF g.status_c.kind = "ok"
         THEN LET lines == StatusLines(g.status_c.stdout)
              IN IF lines = <<"">> THEN Ret(0, <<CmdStatus>>)
                 ELSE IF v = "run"
                      THEN Ret(ChangedExcludingUntracked(lines), <<CmdStatus>>)
                      ELSE Ret(ChangedAllLines(lines), <<CmdStatus>>)
    ELSE Ret(0, <<CmdStatus>>)

_get_untracked_count(g) ==
    IF Escapes(g.status_u) THEN Raise(g.status_u, <<CmdStatus>>)
    ELSE IF Caught(g.status_u) THEN Ret(0, <<CmdStatus>>)
    ELSE IF g.status_u.kind = "ok"
         THEN LET lines == StatusLines(g.status_u.stdout)
              IN IF lines = <<"">> THEN Ret(0, <<CmdStatus>>)
                 ELSE Ret(UntrackedLines(lines), <<CmdStatus>>)
    ELSE Ret(0, <<CmdStatus>>)

_get_total_commits(g) ==
    IF Escapes(g.total) THEN Raise(g.total, <<CmdTotal>>)
    ELSE IF Caught(g.total) THEN Ret(0, <<CmdTotal>>)
    ELSE IF g.total.kind = "ok"
         THEN Ret(IntOrZero(g.total.stdout), <<CmdTotal>>)
    ELSE Ret(0, <<CmdTotal>>)

RECURSIVE BaseName(_)
\* Path(path).name: the final path segment
BaseName(path) ==
    IF \E i \in 1..Len(path) : CharAt(path, i) = "/"
    THEN BaseName(SubSeq(path, (CHOOSE i \in 1..Len(path) : CharAt(path, i) = "/") + 1,
                         Len(path)))
    ELSE path

RECURSIVE Flatten(_)
Flatten(ss) == IF Len(ss) = 0 THEN <<>> ELSE ss[1] \o Flatten(Tail(ss))

\* the methods __init__ calls, in the order of its assignments
InitStepsValidityFirst(g, v) ==
    <<_is_git_repository(g), _get_current_branch(g), _get_remote_url(g),
      _get_ahead_count(g), _get_behind_count(g), _get_changed_count(g, v),
      _get_untracked_count(g)>>
    \o (IF v = "run" THEN <<_get_total_commits(g)>> ELSE <<>>)
InitSteps(g, v) ==
    <<_get_current_branch(g), _get_remote_url(g), _get_ahead_count(g),
      _get_behind_count(g), _get_changed_count(g, v), _get_untracked_count(g)>>
    \o (IF v = "run" THEN <<_get_total_commits(g)>> ELSE <<>>)
    \o <<_is_git_repository(g)>>

\* the index of the first step an exception escapes from, or the last step
LastStep(steps) ==
    IF \A i \in 1..Len(steps) : ~steps[i].raised THEN Len(steps)
    ELSE CHOOSE i \in 1..Len(steps) :
           steps[i].raised /\ \A j \in 1..(i - 1) : ~steps[j].raised

\* the queries issued up to the last step, each in the directory path
QueryLog(path, cmds) == [i \in 1..Len(cmds) |-> [cwd |-> path, cmd |-> cmds[i]]]

\* The fields of the object after __init__ (rec), whether an exception escaped
\* __init__ instead (raised), and the queries issued, in order (log).
\* gitStatus.py has no total_commits field: 0 there.
RepoFrom(path, v, steps) ==
    [raised |-> \E i \in 1..Len(steps) : steps[i].raised,
     exc |-> steps[LastStep(steps)].exc,
     log |-> QueryLog(path, Flatten([i \in 1..LastStep(steps) |-> steps[i].log])),
     rec |-> [name |-> BaseName(path),
              path |-> path,
              branch |-> steps[1].val,
              remote_url |-> steps[2].val,
              ahead_count |-> steps[3].val,
              behind_count |-> steps[4].val,
              changed_count |-> steps[5].val,
              untracked_count |-> steps[6].val,
              total_commits |-> IF v = "run" THEN steps[7].val ELSE 0,
              is_valid |-> steps[Len(steps)].val]]

\* GitRepository(path)
GitRepository(path, g, v) == RepoFrom(path, v, InitSteps(g, v))

-----------------------------------------------------------------------------
(* Values of the variables a specification does not use *)

NoTable == [kind |-> "none", text |-> "", display |-> <<>>,
            widths |-> [c \in DOMAIN Labels |-> 0], rows |-> <<>>]
\* exit is -1 until the process has exited; scans counts the calls of scan()
NoOut == [table |-> NoTable, shown |-> <<>>, lines |-> <<>>, err |-> <<>>, exit |-> -1,
          scans |-> 0]
NoTree == [git_ok |-> FALSE, dirs |-> <<>>]
NoArgs == [path |-> ".", given |-> FALSE, detailed |-> FALSE]
NoGit == [inside |-> Fail, branch |-> Fail, remote |-> Fail, upstream_a |-> Fail,
          ahead |-> Fail, upstream_b |-> Fail, behind |-> Fail, status_c |-> Fail,
          status_u |-> Fail, total |-> Fail]
NoRepo == [raised |-> FALSE, exc |-> "", log |-> <<>>,
           rec |-> [name |-> "", path |-> "", branch |-> "", remote_url |-> "",
                    ahead_count |-> 0, behind_count |-> 0, changed_count |-> 0,
                    untracked_count |-> 0, total_commits |-> 0, is_valid |-> FALSE]]

\* all sequences over S of length at most n
BoundedSeq(S, n) == UNION {[1..k -> S] : k \in 0..n}

-----------------------------------------------------------------------------
(* SpecFormat: TableFormatter.format_repositories applied to lists of records *)

FormatNames == {"a", "repository-b"}

\* <<ahead, behind, changed, untracked, branch, remote_url, total_commits>>;
\* 1234567890 is wider than every count label
FormatProfiles ==
    {<<0, 0, 0, 0, "main", "No remote", 0>>,
     <<0, 0, 0, 0, "HEAD detached", "https://host/repo.git", 1234567890>>,
     <<3, 0, 0, 0, "main", "No remote", 0>>,
     <<0, 1234567890, 0, 0, "HEAD detached", "https://host/repo.git", 0>>,
     <<0, 0, 1, 0, "HEAD detached", "No remote", 1234567890>>,
     <<0, 0, 0, 1234567890, "main", "https://host/repo.git", 7>>,
     <<12, 1, 1234567890, 2, "HEAD detached", "https://host/repo.git", 1234567890>>}

FormatRecords ==
    {[name |-> n, path |-> "/w/" \o n, branch |-> p[5], remote_url |-> p[6],
      ahead_count |-> p[1], behind_count |-> p[2], changed_count |-> p[3],
      untracked_count |-> p[4], total_commits |-> p[7], is_valid |-> TRUE] :
        n \in FormatNames, p \in FormatProfiles}

InitFormat ==
    /\ pc = "format"
    /\ variant = "run"
    /\ args \in {[NoArgs EXCEPT !.detailed = b] : b \in BOOLEAN}
    /\ repositories \in BoundedSeq(FormatRecords, MaxRepos)
    /\ tree = NoTree
    /\ todo = <<>>
    /\ queries = <<>>
    /\ git = NoGit
    /\ repo = NoRepo
    /\ out = NoOut

\* table = TableFormatter.format_repositories(repositories, show_url=args.detailed)
Format ==
    /\ pc = "format"
    /\ out' = [out EXCEPT !.table = format_repositories(repositories, args.detailed)]
    /\ pc' = "done"
    /\ UNCHANGED <<variant, args, tree, repositories, todo, queries, git, repo>>

NextFormat == Format

SpecFormat == InitFormat /\ [][NextFormat]_vars

-----------------------------------------------------------------------------
(* Reading a returned table back from its text *)

TextLines(text) == Split(text, "\n")

\* the lines after the header and the separator
DataRows(text) ==
    LET lines == TextLines(text)
    IN IF Len(lines) >= 3 THEN SubSeq(lines, 3, Len(lines)) ELSE <<>>

\* the cells of a printed row, padding removed
RowCells(row) ==
    LET parts == Split(row, " | ")
    IN [i \in 1..Len(parts) |-> RStrip(parts[i])]

IsMessage(text) == text \in {NoReposMessage, NoChangesMessage}

AllZero(r) ==
    /\ r.ahead_count = 0
    /\ r.behind_count = 0
    /\ r.changed_count = 0
    /\ r.untracked_count = 0

NotAllZero(r) == ~AllZero(r)

Formatted == pc = "done" /\ out.table.kind # "none"

\* C1: in compact mode the rows are exactly the records with some non-zero count,
\* in input order, and every all-zero record is left out; in detailed mode every
\* input record, all-zero ones included, gives exactly one row, in input order.
C1_CompactOmitsCleanDetailedKeepsAll ==
    Formatted /\ repositories # <<>> =>
        LET rows == DataRows(out.table.text)
            shown == IF args.detailed THEN repositories
                     ELSE SelectSeq(repositories, NotAllZero)
        IN /\ Len(rows) = Len(shown)
           /\ \A i \in 1..Len(shown) :
                LET cells == RowCells(rows[i])
                IN /\ cells[1] = shown[i].name
                   /\ cells[2] = shown[i].branch

C1_Witness ==
    /\ Formatted
    /\ ~args.detailed
    /\ Len(repositories) = 2
    /\ AllZero(repositories[1])
    /\ repositories[2].untracked_count > 0
    /\ repositories[2].ahead_count = 0
    /\ Len(DataRows(out.table.text)) = 1

\* C2 as stated: in detailed mode the four count cells of every row are the
\* literal value of the count, "0" for a zero count.
C2_AsStated ==
    Formatted /\ args.detailed /\ repositories # <<>> =>
        LET rows == DataRows(out.table.text)
        IN /\ Len(rows) = Len(repositories)
           /\ \A i \in 1..Len(rows) :
                LET cells == RowCells(rows[i])
                IN /\ cells[3] = IntToStr(repositories[i].ahead_count)
                   /\ cells[4] = IntToStr(repositories[i].behind_count)
                   /\ cells[5] = IntToStr(repositories[i].changed_count)
                   /\ cells[6] = IntToStr(repositories[i].untracked_count)

BlankOrLiteral(n) == IF n = 0 THEN "" ELSE IntToStr(n)

\* C2 amended: in detailed mode, as in compact mode, a count cell is the literal
\* value of a positive count and empty for a zero count; only the total-commits
\* cell is the literal value including "0".
C2_DetailedZeroCountsBlank ==
    Formatted /\ args.detailed /\ repositories # <<>> =>
        LET rows == DataRows(out.table.text)
        IN /\ Len(rows) = Len(repositories)
           /\ \A i \in 1..Len(rows) :
                LET cells == RowCells(rows[i])
                IN /\ cells[3] = BlankOrLiteral(repositories[i].ahead_count)
                   /\ cells[4] = BlankOrLiteral(repositories[i].behind_count)
                   /\ cells[5] = BlankOrLiteral(repositories[i].changed_count)
                   /\ cells[6] = BlankOrLiteral(repositories[i].untracked_count)
                   /\ cells[7] = IntToStr(repositories[i].total_commits)

C2_Witness ==
    /\ Formatted
    /\ args.detailed
    /\ \E i \in 1..Len(repositories) :
         /\ repositories[i].ahead_count = 0
         /\ repositories[i].behind_count > 0
         /\ repositories[i].total_commits = 0
         /\ RowCells(DataRows(out.table.text)[i])[3] = ""
         /\ RowCells(DataRows(out.table.text)[i])[7] = "0"

\* C3: whenever a table is produced, in both modes, every column's width is at
\* least the length of its header label and of every cell placed in the column.
C3_WidthCoversLabelAndCells ==
    Formatted /\ out.table.kind = "table" =>
        LET t == out.table
            cols == Columns(args.detailed)
        IN /\ \A k \in 1..Len(cols) : t.widths[cols[k]] >= Len(Labels[cols[k]])
           /\ \A i \in 1..Len(t.display) :
                LET placed == Cells(t.display[i])
                    printed == RowCells(t.rows[i])
                IN \A k \in 1..Len(cols) :
                     /\ t.widths[cols[k]] >= Len(placed[cols[k]])
                     /\ t.widths[cols[k]] >= Len(printed[k])

C3_Witness ==
    /\ Formatted
    /\ out.table.kind = "table"
    /\ args.detailed
    /\ out.table.widths.name > Len("Repository")
    /\ out.table.widths.untracked > Len("Untracked")
    /\ out.table.widths.url > Len("Remote URL")
    /\ out.table.widths.ahead = Len("Ahead")

\* C4: whenever a table is produced, in both modes, its second line is a run of
\* '-' as long as the header line and every data row is as long as the header.
C4_SeparatorAndRowsMatchHeader ==
    Formatted /\ ~IsMessage(out.table.text) =>
        LET lines == TextLines(out.table.text)
        IN /\ Len(lines) >= 2
           /\ lines[2] = Repeat("-", Len(lines[1]))
           /\ \A i \in 3..Len(lines) : Len(lines[i]) = Len(lines[1])

C4_Witness ==
    /\ Formatted
    /\ ~IsMessage(out.table.text)
    /\ Len(TextLines(out.table.text)) = 4
    /\ Len(repositories[1].name) < Len(repositories[2].name)
    /\ Len(TextLines(out.table.text)[3]) > Len(HeaderLine([c \in DOMAIN Labels |-> 0],
                                                          args.detailed))

\* C5: the result is a bare message exactly when there is nothing to display: the
\* fixed "no repositories found" message for an empty input in either mode, the
\* "no repositories with changes" message when the compact filter leaves nothing;
\* in every other case it is a header, a separator and at least one row.
C5_MessageIffNothingToDisplay ==
    Formatted =>
        LET text == out.table.text
            lines == TextLines(text)
            nothing == /\ ~args.detailed
                       /\ \A i \in 1..Len(repositories) : AllZero(repositories[i])
        IN IF repositories = <<>> THEN text = NoReposMessage
           ELSE IF nothing THEN text = NoChangesMessage
           ELSE /\ ~IsMessage(text)
                /\ Len(lines) >= 3
                /\ RowCells(lines[1]) = [k \in 1..Len(Columns(args.detailed)) |->
                                            Labels[Columns(args.detailed)[k]]]
                /\ Len(lines[2]) > 0
                /\ lines[2] = Repeat("-", Len(lines[2]))

C5_Witness ==
    /\ Formatted
    /\ ~args.detailed
    /\ Len(repositories) = 2
    /\ out.table.text = NoChangesMessage

-----------------------------------------------------------------------------
(* SpecInspect: GitRepository(path) against every combination of answers *)

InspectPath == "/w/repo"

AnswersInside == {Ok("true\n"), Ok("false\n"), Fail, Timeout}
AnswersBranch == {Ok("main\n"), Ok("\n"), Fail, OsError}
AnswersRemote == {Ok("git@h:r.git\n"), Fail}
AnswersUpstream == {Ok("origin/main\n"), Fail, Timeout}
AnswersRevList == {Ok("12\n"), Ok("x\n"), Ok("-1\n"), Fail}
AnswersStatus == {Ok(""), Ok(" M a\n?? b\n"), Fail}
AnswersTotal == {Ok("7\n"), Fail, NotFound}

\* the two status queries of one inspection see the same working tree
InspectAnswers ==
    {[inside |-> i, branch |-> b, remote |-> r, upstream_a |-> ua, ahead |-> a,
      upstream_b |-> ub, behind |-> bh, status_c |-> s, status_u |-> s, total |-> t] :
        i \in AnswersInside, b \in AnswersBranch, r \in AnswersRemote,
        ua \in AnswersUpstream, a \in AnswersRevList, ub \in AnswersUpstream,
        bh \in AnswersRevList, s \in AnswersStatus, t \in AnswersTotal}

InitInspectWith(answers) ==
    /\ pc = "inspect"
    /\ variant \in {"run", "gitStatus"}
    /\ args = NoArgs
    /\ repositories = <<>>
    /\ tree = NoTree
    /\ todo = <<>>
    /\ queries = <<>>
    /\ git \in answers
    /\ repo = NoRepo
    /\ out = NoOut

InitInspect == InitInspectWith(InspectAnswers)

\* repo = GitRepository(path)
Inspect ==
    /\ pc = "inspect"
    /\ repo' = GitRepository(InspectPath, git, variant)
    /\ queries' = queries \o repo'.log
    /\ pc' = "done"
    /\ UNCHANGED <<variant, args, tree, repositories, todo, git, out>>

NextInspect == Inspect

SpecInspect == InitInspect /\ [][NextInspect]_vars

Inspected == pc = "done" /\ queries # <<>> /\ ~repo.raised

IsAheadCmd(cmd) ==
    /\ IsRevListRange(cmd)
    /\ SubSeq(cmd, Len(cmd) - Len("..HEAD") + 1, Len(cmd)) = "..HEAD"

IsBehindCmd(cmd) ==
    /\ IsRevListRange(cmd)
    /\ SubSeq(cmd, 1, Len("rev-list --count HEAD..")) = "rev-list --count HEAD.."

\* C8: when the upstream query made for a field exits non-zero, that field is 0
\* and no rev-list counting query is issued for it, whatever rev-list would have
\* answered; when both upstream queries exit non-zero, both counts are 0 and no
\* range rev-list query is issued at all.
C8_NoUpstreamMeansZeroAndNoRevList ==
    Inspected =>
        /\ git.upstream_a.kind = "fail" =>
             /\ repo.rec.ahead_count = 0
             /\ \A i \in 1..Len(queries) : ~IsAheadCmd(queries[i].cmd)
        /\ git.upstream_b.kind = "fail" =>
             /\ repo.rec.behind_count = 0
             /\ \A i \in 1..Len(queries) : ~IsBehindCmd(queries[i].cmd)
        /\ git.upstream_a.kind = "fail" /\ git.upstream_b.kind = "fail" =>
             /\ Cardinality({i \in 1..Len(queries) : queries[i].cmd = CmdUpstream}) = 2
             /\ \A i \in 1..Len(queries) : ~IsRevListRange(queries[i].cmd)

C8_Witness ==
    /\ Inspected
    /\ git.upstream_a.kind = "fail"
    /\ git.upstream_b.kind = "fail"
    /\ git.ahead = Ok("12\n")
    /\ git.behind = Ok("12\n")
    /\ repo.rec.ahead_count = 0
    /\ repo.rec.behind_count = 0
    /\ repo.rec.is_valid

-----------------------------------------------------------------------------
(* SpecStatus: the two status counters against every short listing *)

ListingChars == {"?", "M", " ", "\n"}

RECURSIVE Texts(_)
\* every text over ListingChars of length at most n
Texts(n) ==
    IF n = 0 THEN {""}
    ELSE LET shorter == Texts(n - 1)
         IN shorter \cup {t \o c : t \in {u \in shorter : Len(u) = n - 1},
                                   c \in ListingChars}

StatusAnswers ==
    {[inside |-> Ok("true\n"), branch |-> Ok("main\n"), remote |-> Fail,
      upstream_a |-> Fail, ahead |-> Fail, upstream_b |-> Fail, behind |-> Fail,
      status_c |-> Ok(t), status_u |-> Ok(t), total |-> Ok("7\n")] :
        t \in Texts(MaxListingLen)}

InitStatus == InitInspectWith(StatusAnswers)

SpecStatus == InitStatus /\ [][NextInspect]_vars

\* N and U of a listing as git printed it
NonEmptyLines(text) ==
    LET lines == TextLines(text)
    IN Cardinality({i \in 1..Len(lines) : lines[i] # ""})

MarkedLines(text) ==
    LET lines == TextLines(text)
    IN Cardinality({i \in 1..Len(lines) :
                      Len(lines[i]) >= 2 /\ SubSeq(lines[i], 1, 2) = "??"})

OneCharLines(text) ==
    LET lines == TextLines(text)
    IN Cardinality({i \in 1..Len(lines) : Len(lines[i]) = 1})

\* the lines the counters see: those of the listing with the whitespace at both
\* ends of the whole output removed; none for an empty listing
SeenLineCount(text) ==
    IF Strip(text) = "" THEN 0 ELSE Len(TextLines(Strip(text)))

Listing == git.status_c.stdout

\* C9 as stated: under the all-lines policy changed_count + untracked_count = N.
C9_AsStated ==
    Inspected /\ variant = "gitStatus" =>
        repo.rec.changed_count + repo.rec.untracked_count = NonEmptyLines(Listing)

\* C9 amended: under the all-lines policy changed_count is the number of lines of
\* the stripped listing, untracked lines included, and untracked_count is the
\* number of those lines that begin with '??'; so with no blank line inside the
\* listing changed_count = N and changed_count + untracked_count = N + U.
C9_AllLinesCountsEveryLine ==
    Inspected /\ variant = "gitStatus" =>
        LET seen == Strip(Listing)
        IN /\ repo.rec.changed_count = SeenLineCount(Listing)
           /\ repo.rec.untracked_count = MarkedLines(seen)
           /\ NonEmptyLines(seen) = SeenLineCount(Listing) =>
                /\ repo.rec.changed_count = NonEmptyLines(seen)
                /\ repo.rec.changed_count + repo.rec.untracked_count
                     = NonEmptyLines(seen) + MarkedLines(seen)

C9_Witness ==
    /\ Inspected
    /\ variant = "gitStatus"
    /\ Listing = " M\n??\n"
    /\ repo.rec.changed_count = 2
    /\ repo.rec.untracked_count = 1

\* C10 as stated: under the exclude-untracked policy untracked_count = U and
\* changed_count = N - U for every listing, short lines and stripped leading
\* whitespace included.
C10_AsStated ==
    Inspected /\ variant = "run" =>
        /\ repo.rec.untracked_count = MarkedLines(Listing)
        /\ repo.rec.changed_count = NonEmptyLines(Listing) - MarkedLines(Listing)

\* C10 amended: with N, U and S the numbers of non-empty lines, of lines beginning
\* '??' and of one-character lines of the listing after strip() of the whole
\* output, untracked_count = U and changed_count = N - U - S: a one-character line
\* is counted in neither; changed_count = N - U when no such line exists.
C10_ExcludeUntrackedSkipsShortLines ==
    Inspected /\ variant = "run" =>
        LET seen == Strip(Listing)
        IN /\ repo.rec.untracked_count = MarkedLines(seen)
           /\ repo.rec.changed_count
                = NonEmptyLines(seen) - MarkedLines(seen) - OneCharLines(seen)

C10_Witness ==
    /\ Inspected
    /\ variant = "run"
    /\ Listing = " ?\n??"
    /\ NonEmptyLines(Listing) = 2
    /\ repo.rec.changed_count = 0
    /\ repo.rec.untracked_count = 1

-----------------------------------------------------------------------------
(* class GitScanner and the two entry points *)

\* where a command line can point: the positional argument, the current directory
\* ("."), and Path.home() / "GitHub"
ArgDir == "/arg"
CurDir == "/cwd"
HomeGitHub == "/home/GitHub"
Locations == {ArgDir, CurDir, HomeGitHub}

\* Path(p).resolve()
Resolve(p) == IF p = "." THEN CurDir ELSE p

\* run.py validates Path(args.path); gitStatus.py validates the module-level
\* scan_path = Path.home() / "GitHub"
ValidatedPath(v, a) == IF v = "run" THEN Resolve(a.path) ELSE HomeGitHub

\* run.py: GitScanner(args.path); gitStatus.py: GitScanner(scan_path)
ScannerPath(v, a) == IF v = "run" THEN Resolve(a.path) ELSE HomeGitHub

\* item.name.startswith('.')
IsHiddenNever(name) == FALSE
IsHidden(name) == Len(name) >= 1 /\ CharAt(name, 1) = "."

\* (path / '.git').exists()
_is_directory_git_repo_always(entry) == TRUE
_is_directory_git_repo(entry) == entry.has_git

\* if repo.is_valid: self.repositories.append(repo)
AppendedUnchecked(repos, r) == Append(repos, r)
Appended(repos, r) == IF r.is_valid THEN Append(repos, r) ELSE repos

\* text.lower(), for the letters the model's names use
Lower(text) ==
    LET up == "ABCDEFGHIJKLMNOPQRSTUVWXYZ"
        low == "abcdefghijklmnopqrstuvwxyz"
        lc(c) == IF \E k \in 1..26 : CharAt(up, k) = c
                 THEN CharAt(low, CHOOSE k \in 1..26 : CharAt(up, k) = c) ELSE c
        RECURSIVE go(_)
        go(t) == IF Len(t) = 0 THEN "" ELSE lc(CharAt(t, 1)) \o go(SubSeq(t, 2, Len(t)))
    IN go(text)

\* code points in increasing order, for the characters the model's names use
CharOrder == "-./0123456789ABCDEFGHIJKLMNOPQRSTUVWXYZ_abcdefghijklmnopqrstuvwxyz"
CharRank(c) == CHOOSE k \in 1..Len(CharOrder) : CharAt(CharOrder, k) = c

RECURSIVE StrLess(_, _)
\* s < t for Python strings
StrLess(s, t) ==
    IF Len(t) = 0 THEN FALSE
    ELSE IF Len(s) = 0 THEN TRUE
    ELSE IF CharAt(s, 1) = CharAt(t, 1)
         THEN StrLess(SubSeq(s, 2, Len(s)), SubSeq(t, 2, Len(t)))
    ELSE CharRank(CharAt(s, 1)) < CharRank(CharAt(t, 1))

RECURSIVE SortedByName(_)
\* repositories.sort(key=lambda repo: repo.name.lower()): a stable sort
SortedByName(repos) ==
    IF Len(repos) <= 1 THEN repos
    ELSE LET rest == SortedByName(SubSeq(repos, 1, Len(repos) - 1))
             x == repos[Len(repos)]
             before == {i \in 1..Len(rest) :
                          ~StrLess(Lower(x.name), Lower(rest[i].name))}
             k == Cardinality(before)
         IN SubSeq(rest, 1, k) \o <<x>> \o SubSeq(rest, k + 1, Len(rest))

NAME_WIDTH == 18
BRANCH_WIDTH == 12
COUNT_WIDTH == 10
FONT == "font=Menlo size=11"

truncate(text, width) ==
    IF Len(text) > width THEN SubSeq(text, 1, width - 3) \o "..."
    ELSE LJust(text, width)

\* gitStatus.py: the line printed for one repository
PluginLine(r) ==
    LJust(truncate(r.name, 15), NAME_WIDTH) \o " "
    \o LJust(truncate(r.branch, 12), 12)
    \o LJust(IntToStr(r.ahead_count), COUNT_WIDTH)
    \o LJust(IntToStr(r.behind_count), COUNT_WIDTH)
    \o LJust(IntToStr(r.changed_count), COUNT_WIDTH)
    \o LJust(IntToStr(r.untracked_count), COUNT_WIDTH)
    \o " | href=" \o r.remote_url \o " " \o FONT

\* gitStatus.py: the header printed at import time (the title's emoji left out)
PluginBanner ==
    <<"GitStatus", "---",
      LJust("Repository", NAME_WIDTH) \o " " \o LJust("Branch", 12)
      \o LJust("Ahead", COUNT_WIDTH) \o LJust("Behind", COUNT_WIDTH)
      \o LJust("Change", COUNT_WIDTH) \o LJust("Untracked", COUNT_WIDTH)
      \o " | " \o FONT,
      "---">>

-----------------------------------------------------------------------------
(* Spec: a whole run of either program over a small file system *)

\* the entries a scanned directory may hold
\* (nested: the directory holds a repository one level further down)
Entries ==
    {[name |-> "a", is_dir |-> TRUE, has_git |-> TRUE, nested |-> FALSE],
     [name |-> "B", is_dir |-> TRUE, has_git |-> TRUE, nested |-> TRUE],
     [name |-> "c", is_dir |-> TRUE, has_git |-> FALSE, nested |-> TRUE],
     [name |-> ".h", is_dir |-> TRUE, has_git |-> TRUE, nested |-> FALSE],
     [name |-> "f", is_dir |-> FALSE, has_git |-> FALSE, nested |-> FALSE]}

\* directory listings: entries with distinct names, in any order
DirListings ==
    {l \in BoundedSeq(Entries, MaxChildren) :
        \A i, j \in 1..Len(l) : i # j => l[i] # l[j]}

Missing == [kind |-> "missing", has_git |-> FALSE, children |-> <<>>]
PlainFile == [kind |-> "file", has_git |-> FALSE, children |-> <<>>]
OtherDir == [kind |-> "dir", has_git |-> FALSE,
             children |-> <<[name |-> "other", is_dir |-> TRUE, has_git |-> TRUE,
                             nested |-> FALSE]>>]

\* what the scanned location may be
ScannedDirs ==
    {Missing, PlainFile}
    \cup {[kind |-> "dir", has_git |-> hg, children |-> l] :
            hg \in BOOLEAN, l \in DirListings}

\* what git answers in a repository of each kind
CleanRepo ==
    [inside |-> Ok("true\n"), branch |-> Ok("main\n"), remote |-> Ok("git@h:r.git\n"),
     upstream_a |-> Ok("origin/main\n"), ahead |-> Ok("0\n"),
     upstream_b |-> Ok("origin/main\n"), behind |-> Ok("0\n"),
     status_c |-> Ok(""), status_u |-> Ok(""), total |-> Ok("7\n")]
DirtyRepo ==
    [inside |-> Ok("true\n"), branch |-> Ok("\n"), remote |-> Fail,
     upstream_a |-> Ok("origin/main\n"), ahead |-> Ok("12\n"),
     upstream_b |-> Fail, behind |-> Ok("3\n"),
     status_c |-> Ok(" M a\n?? b\n"), status_u |-> Ok(" M a\n?? b\n"),
     total |-> Ok("7\n")]
NotARepo == NoGit
TimedOutRepo == [CleanRepo EXCEPT !.inside = Timeout]
Unreadable == [NoGit EXCEPT !.branch = OsError]
Forbidden == [CleanRepo EXCEPT !.total = Denied, !.status_u = Denied]

MainAnswers == {CleanRepo, DirtyRepo, NotARepo, TimedOutRepo, Unreadable, Forbidden}

Init ==
    /\ pc = "begin"
    /\ variant \in {"run", "gitStatus"}
    /\ args \in {[path |-> IF given THEN ArgDir ELSE ".", given |-> given,
                  detailed |-> d] :
                    given \in BOOLEAN,
                    d \in IF variant = "run" THEN BOOLEAN ELSE {FALSE}}
    /\ \E ok \in BOOLEAN, scanned \in ScannedDirs, other \in {Missing, OtherDir} :
         tree = [git_ok |-> ok,
                 dirs |-> [l \in Locations |->
                            IF l = ScannerPath(variant, args) THEN scanned
                            ELSE IF l = ArgDir /\ args.given THEN other
                            ELSE IF l = CurDir THEN OtherDir
                            ELSE Missing]]
    /\ repositories = <<>>
    /\ todo = <<>>
    /\ queries = <<>>
    /\ git = NoGit
    /\ repo = NoRepo
    /\ out = NoOut

Exit(code, errs) ==
    /\ pc' = "exit"
    /\ out' = [out EXCEPT !.exit = code, !.err = out.err \o errs]

\* gitStatus.py prints its banner before it parses the command line
Begin ==
    /\ pc = "begin"
    /\ pc' = "check"
    /\ out' = [out EXCEPT !.lines = IF variant = "gitStatus" THEN PluginBanner ELSE <<>>]
    /\ UNCHANGED <<variant, args, tree, repositories, todo, queries, git, repo>>

\* if not check_git_availability(): ... sys.exit(1)
GitUnavailable ==
    /\ pc = "check"
    /\ ~tree.git_ok
    /\ Exit(1, <<"Error: Git is not installed or not in PATH. Please install Git to use this script.">>)
    /\ UNCHANGED <<variant, args, tree, repositories, todo, queries, git, repo>>

\* the printed form of the validated path
PathText == IF variant = "run" THEN args.path ELSE HomeGitHub

\* if not scan_path.exists(): ... sys.exit(1)
PathMissing ==
    /\ pc = "check"
    /\ tree.git_ok
    /\ tree.dirs[ValidatedPath(variant, args)].kind = "missing"
    /\ Exit(1, <<"Error: Path '" \o PathText \o "' does not exist.">>)
    /\ UNCHANGED <<variant, args, tree, repositories, todo, queries, git, repo>>

\* if not scan_path.is_dir(): ... sys.exit(1)
PathNotDirUnchecked ==
    /\ pc = "check"
    /\ tree.git_ok
    /\ tree.dirs[ValidatedPath(variant, args)].kind = "file"
    /\ pc' = "list"
    /\ UNCHANGED <<variant, args, tree, repositories, todo, queries, git, repo, out>>
PathNotDir ==
    /\ pc = "check"
    /\ tree.git_ok
    /\ tree.dirs[ValidatedPath(variant, args)].kind = "file"
    /\ Exit(1, <<"Error: Path '" \o PathText \o "' is not a directory.">>)
    /\ UNCHANGED <<variant, args, tree, repositories, todo, queries, git, repo>>

\* run.py: print(f"Scanning for Git repositories in: {self.scan_path}")
ScanningLine ==
    IF variant = "run"
    THEN <<"Scanning for Git repositories in: " \o ScannerPath(variant, args)>>
    ELSE <<>>

\* scanner = GitScanner(path); scanner.scan() up to its first check
StartScan ==
    /\ pc = "check"
    /\ tree.git_ok
    /\ tree.dirs[ValidatedPath(variant, args)].kind = "dir"
    /\ pc' = IF variant = "run" THEN "root" ELSE "list"
    /\ repositories' = <<>>
    /\ out' = [out EXCEPT !.scans = 1, !.lines = out.lines \o ScanningLine]
    /\ UNCHANGED <<variant, args, tree, todo, queries, git, repo>>

\* except PermissionError: print(f"Permission denied accessing: {self.scan_path}")
Notice == "Permission denied accessing: " \o ScannerPath(variant, args)

\* GitRepository(str(path)) inside scan(): the record is appended when valid.  A
\* PermissionError of the constructor inside the try block (in_try) ends the loop
\* with the notice; any other exception, and any exception for the scan root,
\* leaves scan() and reaches the entry point's `except Exception`, which reports
\* it and exits with code 1.
Constructed(r, g, next, in_try) ==
    /\ git' = g
    /\ repo' = r
    /\ queries' = queries \o r.log
    /\ IF ~r.raised
       THEN /\ repositories' = Appended(repositories, r.rec)
            /\ pc' = next
            /\ UNCHANGED out
       ELSE IF in_try /\ r.exc = "PermissionError"
       THEN /\ pc' = "report"
            /\ out' = [out EXCEPT !.lines = out.lines \o <<Notice>>]
            /\ UNCHANGED repositories
       ELSE /\ Exit(1, <<"An error occurred: " \o r.exc>>)
            /\ UNCHANGED repositories

Construct(path, g, next, in_try) ==
    Constructed(GitRepository(path, g, variant), g, next, in_try)

\* every path the model's file systems hold
AllPaths ==
    Locations \cup {l \o "/" \o n : l \in Locations, n \in {"a", "B", "c", ".h", "f", "other"}}

\* any answer in any directory, each time it is inspected
AnyAnswers == [p \in AllPaths |-> MainAnswers]

\* run.py only: if self._is_directory_git_repo(self.scan_path): ...
\* (answers[p]: what git may answer in directory p)
ScanRootFrom(answers) ==
    /\ pc = "root"
    /\ LET root == ScannerPath(variant, args)
       IN IF _is_directory_git_repo(tree.dirs[root])
          THEN \E g \in answers[root] : Construct(root, g, "list", FALSE)
          ELSE /\ pc' = "list"
               /\ UNCHANGED <<repositories, queries, git, repo, out>>
    /\ UNCHANGED <<variant, args, tree, todo>>

ScanRoot == ScanRootFrom(AnyAnswers)

\* for item in self.scan_path.iterdir(): the listing is read
ListDir ==
    /\ pc = "list"
    /\ todo' = tree.dirs[ScannerPath(variant, args)].children
    /\ pc' = "iter"
    /\ UNCHANGED <<variant, args, tree, repositories, queries, git, repo, out>>

\* one turn of the loop over iterdir()
ScanChildFrom(answers) ==
    /\ pc = "iter"
    /\ todo # <<>>
    /\ todo' = Tail(todo)
    /\ LET item == Head(todo)
           path == ScannerPath(variant, args) \o "/" \o item.name
       IN IF item.is_dir /\ ~IsHidden(item.name) /\ _is_directory_git_repo(item)
          THEN \E g \in answers[path] : Construct(path, g, "iter", TRUE)
          ELSE /\ pc' = "iter"
               /\ UNCHANGED <<repositories, queries, git, repo, out>>
    /\ UNCHANGED <<variant, args, tree>>

ScanChild == ScanChildFrom(AnyAnswers)

\* except PermissionError: listing the directory or looking at an entry is refused
ScanPermissionErrorDropsResult ==
    /\ pc \in {"list", "iter"}
    /\ pc' = "report"
    /\ todo' = <<>>
    /\ repositories' = <<>>
    /\ out' = [out EXCEPT !.lines = out.lines \o <<Notice>>]
    /\ UNCHANGED <<variant, args, tree, queries, git, repo>>
ScanPermissionError ==
    /\ pc \in {"list", "iter"}
    /\ pc' = "report"
    /\ todo' = <<>>
    /\ out' = [out EXCEPT !.lines = out.lines \o <<Notice>>]
    /\ UNCHANGED <<variant, args, tree, repositories, queries, git, repo>>

\* the loop ends; return self.repositories
ScanReturn ==
    /\ pc = "iter"
    /\ todo = <<>>
    /\ pc' = "report"
    /\ UNCHANGED <<variant, args, tree, repositories, todo, queries, git, repo, out>>

\* run.py: the count, the table and the summary are printed
ReportTable ==
    /\ pc = "report"
    /\ variant = "run"
    /\ LET t == format_repositories(repositories, args.detailed)
       IN out' = [out EXCEPT
                    !.table = t,
                    !.shown = t.display,
                    !.lines = out.lines
                        \o <<"\nFound " \o IntToStr(Len(repositories))
                             \o " Git repositories:\n", t.text,
                             IF Len(repositories) > 0
                             THEN "\nSummary: " \o IntToStr(Len(repositories))
                                  \o " Git repositories found"
                             ELSE "\nNo Git repositories found in the specified directory.">>,
                    !.exit = 0]
    /\ pc' = "exit"
    /\ UNCHANGED <<variant, args, tree, repositories, todo, queries, git, repo>>

\* gitStatus.py: the list is sorted in place and one line is printed per repository
ReportLines ==
    /\ pc = "report"
    /\ variant = "gitStatus"
    /\ repositories' = SortedByName(repositories)
    /\ out' = [out EXCEPT
                 !.shown = repositories',
                 !.lines = out.lines
                     \o [i \in 1..Len(repositories') |-> PluginLine(repositories'[i])]
                     \o <<"Refresh | refresh=true">>,
                 !.exit = 0]
    /\ pc' = "exit"
    /\ UNCHANGED <<variant, args, tree, todo, queries, git, repo>>

Next ==
    \/ Begin
    \/ GitUnavailable
    \/ PathMissing
    \/ PathNotDir
    \/ StartScan
    \/ ScanRoot
    \/ ListDir
    \/ ScanChild
    \/ ScanPermissionError
    \/ ScanReturn
    \/ ReportTable
    \/ ReportLines

Spec == Init /\ [][Next]_vars

-----------------------------------------------------------------------------
(* SpecRescan: a caller that calls scan() again on the same GitScanner, over a
   directory tree that does not change between the calls *)

\* most calls of scan() on one GitScanner
MaxScans == 2

\* what git answers in each directory, the same at every inspection
TreeAnswers ==
    [p \in AllPaths |->
        IF BaseName(p) \in {"a", ".h", "other"} THEN {CleanRepo}
        ELSE IF BaseName(p) = "B" THEN {TimedOutRepo}
        ELSE IF p \in Locations THEN {DirtyRepo}
        ELSE {NotARepo}]

RescanRoot == ScanRootFrom(TreeAnswers)

RescanChild == ScanChildFrom(TreeAnswers)

\* scanner.scan() once more: self.repositories is assigned in __init__ only, so
\* the list the call appends to is the one the last call returned
ScanAgain ==
    /\ pc = "report"
    /\ out.scans < MaxScans
    /\ pc' = IF variant = "run" THEN "root" ELSE "list"
    /\ out' = [out EXCEPT !.scans = out.scans + 1, !.lines = out.lines \o ScanningLine]
    /\ UNCHANGED <<variant, args, tree, repositories, todo, queries, git, repo>>

\* (the listing of an unchanged tree succeeds at every call: no permission error)
NextRescan ==
    \/ Begin
    \/ GitUnavailable
    \/ PathMissing
    \/ PathNotDir
    \/ StartScan
    \/ RescanRoot
    \/ ListDir
    \/ RescanChild
    \/ ScanReturn
    \/ ScanAgain
    \/ ReportTable
    \/ ReportLines

SpecRescan == Init /\ [][NextRescan]_vars

-----------------------------------------------------------------------------
(* Claims about the scan *)

\* the paths of the entries of location l that hold a '.git' entry
GitChildren(l) ==
    {l \o "/" \o tree.dirs[l].children[i].name :
        i \in {k \in 1..Len(tree.dirs[l].children) : tree.dirs[l].children[k].has_git}}

\* every path of the file system that holds a '.git' entry
GitDirs ==
    {l \in Locations : tree.dirs[l].has_git} \cup UNION {GitChildren(l) : l \in Locations}

Exited(code) == pc = "exit" /\ out.exit = code

\* C6: no GitRepository is constructed, so no git query is issued, in a directory
\* without a '.git' entry, and no such directory is in the scan result: for the
\* children in both programs and for the scan root in run.py.
C6_NoGitMarkerNoInspection ==
    /\ \A i \in 1..Len(queries) : queries[i].cwd \in GitDirs
    /\ \A i \in 1..Len(repositories) : repositories[i].path \in GitDirs
    /\ repo # NoRepo => repo.rec.path \in GitDirs

C6_Witness ==
    /\ Exited(0)
    /\ variant = "run"
    /\ ~tree.dirs[ArgDir].has_git
    /\ Len(tree.dirs[ArgDir].children) = 2
    /\ tree.dirs[ArgDir].children[1].name = "c"
    /\ tree.dirs[ArgDir].children[2].name = "a"
    /\ Len(repositories) = 1
    /\ repositories[1].path = "/arg/a"
    /\ \A i \in 1..Len(queries) : queries[i].cwd = "/arg/a"

\* the working-tree check of an inspection succeeded
InsideWorkTree(g) == g.inside.kind = "ok" /\ Strip(g.inside.stdout) = "true"

\* C7: every record of the scan result, and so every record rendered as an output
\* row by either program, has is_valid = true; a record whose working-tree check
\* failed, errored or timed out is not in the result.
C7_OnlyValidRecordsInResult ==
    /\ \A i \in 1..Len(repositories) : repositories[i].is_valid
    /\ \A i \in 1..Len(out.shown) : out.shown[i].is_valid
    /\ repo # NoRepo /\ ~InsideWorkTree(git) =>
          \A i \in 1..Len(repositories) : repositories[i].path # repo.rec.path
    /\ Exited(0) /\ variant = "gitStatus" =>
          /\ out.shown = repositories
          /\ \A i \in 1..Len(out.shown) :
                \E k \in 1..Len(out.lines) : out.lines[k] = PluginLine(out.shown[i])
    /\ Exited(0) /\ variant = "run" /\ out.table.kind = "table" =>
          /\ Len(DataRows(out.table.text)) = Len(out.shown)
          /\ \A i \in 1..Len(out.shown) :
                \E j \in 1..Len(repositories) : out.shown[i] = repositories[j]

C7_Witness ==
    /\ Exited(0)
    /\ git.inside = Timeout
    /\ ~repo.raised
    /\ Len(repositories) = 1
    /\ Len(out.shown) = 1
    /\ repositories[1].path # repo.rec.path
    /\ \E i \in 1..Len(queries) : queries[i].cwd = repo.rec.path

-----------------------------------------------------------------------------
(* Claims about the entry points *)

\* the environment errors: the git probe fails, or the validated path is missing
\* or is not a directory
EnvError ==
    \/ ~tree.git_ok
    \/ tree.dirs[ValidatedPath(variant, args)].kind # "dir"

\* the one message an environment error writes to the error stream
EnvErrorMessage ==
    IF ~tree.git_ok
    THEN "Error: Git is not installed or not in PATH. Please install Git to use this script."
    ELSE IF tree.dirs[ValidatedPath(variant, args)].kind = "missing"
    THEN "Error: Path '" \o PathText \o "' does not exist."
    ELSE "Error: Path '" \o PathText \o "' is not a directory."

\* a line of the output is the row of some repository
IsRepositoryRow(line) ==
    \E l \in Locations : \E i \in 1..Len(tree.dirs[l].children) :
        LET name == tree.dirs[l].children[i].name
        IN Len(line) > Len(name) /\ SubSeq(line, 1, Len(name) + 1) = name \o " "

\* C11: in both programs, when the git probe fails or the scan root is missing or
\* is not a directory, the run never reaches the scanner: no directory is listed,
\* no GitRepository is built, no query is issued and no repository row is printed;
\* the only step after the checks exits with code 1 and one message on the error
\* stream.
C11_EnvErrorExitsBeforeScan ==
    EnvError =>
        /\ pc \in {"begin", "check", "exit"}
        /\ todo = <<>>
        /\ queries = <<>>
        /\ repositories = <<>>
        /\ repo = NoRepo
        /\ out.shown = <<>>
        /\ out.table = NoTable
        /\ \A i \in 1..Len(out.lines) : ~IsRepositoryRow(out.lines[i])
        /\ pc = "exit" => out.exit = 1 /\ out.err = <<EnvErrorMessage>>
        /\ pc # "exit" => out.exit = -1 /\ out.err = <<>>

C11_Witness ==
    /\ Exited(1)
    /\ variant = "gitStatus"
    /\ tree.git_ok
    /\ tree.dirs[HomeGitHub].kind = "file"
    /\ out.err = <<"Error: Path '/home/GitHub' is not a directory.">>
    /\ out.lines = PluginBanner

\* the paths of the entries of location l
ChildPaths(l) ==
    {l \o "/" \o tree.dirs[l].children[i].name : i \in 1..Len(tree.dirs[l].children)}

\* the directory the command line asks for: the positional path when given, else
\* the program's default
RequestedDir ==
    IF args.given THEN ArgDir ELSE IF variant = "run" THEN CurDir ELSE HomeGitHub

\* s is what is left of seq after some of its first elements were taken
IsSuffix(s, seq) ==
    Len(s) <= Len(seq) /\ s = SubSeq(seq, Len(seq) - Len(s) + 1, Len(seq))

\* C12 as stated: in both programs the directory that is validated and the
\* directory that is scanned are the positional path when one is given, and the
\* program's default only when none is given: the run goes on to scan only when
\* that directory exists and is a directory, and every listing read, query issued
\* and record appended belongs to that directory.
C12_AsStated ==
    /\ pc \in {"root", "list", "iter", "report"} => tree.dirs[RequestedDir].kind = "dir"
    /\ pc = "iter" => IsSuffix(todo, tree.dirs[RequestedDir].children)
    /\ \A i \in 1..Len(queries) :
         queries[i].cwd \in {RequestedDir} \cup ChildPaths(RequestedDir)
    /\ \A i \in 1..Len(repositories) :
         repositories[i].path \in {RequestedDir} \cup ChildPaths(RequestedDir)

-----------------------------------------------------------------------------
(* Claims about the constructor *)

\* an answer other than a zero exit: the query failed, timed out or could not be
\* started
Failed(resp) == resp.kind # "ok"

\* C13 as stated: constructing a GitRepository always completes, whatever each
\* query does (non-zero exit, timeout, missing executable, any other failure to
\* start the process, non-numeric output): no exception reaches the caller, the
\* field of a failed query takes its zero or sentinel value and the other fields
\* are what their own queries give.
C13_AsStated ==
    pc = "done" =>
        /\ ~repo.raised
        /\ Failed(git.branch) => repo.rec.branch = "Unknown"
        /\ Failed(git.remote) => repo.rec.remote_url = "No remote"
        /\ Failed(git.upstream_a) \/ Failed(git.ahead) => repo.rec.ahead_count = 0
        /\ Failed(git.upstream_b) \/ Failed(git.behind) => repo.rec.behind_count = 0
        /\ Failed(git.status_c) => repo.rec.changed_count = 0
        /\ Failed(git.status_u) => repo.rec.untracked_count = 0
        /\ Failed(git.total) => repo.rec.total_commits = 0
        /\ Failed(git.inside) => ~repo.rec.is_valid
        /\ git.ahead = Ok("x\n") => repo.rec.ahead_count = 0
        /\ git.behind = Ok("x\n") => repo.rec.behind_count = 0
        /\ ~Failed(git.remote) => repo.rec.remote_url = Strip(git.remote.stdout)
        /\ ~Failed(git.total) /\ variant = "run" =>
              repo.rec.total_commits = IntOrZero(git.total.stdout)
        /\ repo.rec.is_valid = InsideWorkTree(git)

-----------------------------------------------------------------------------
(* Claims about a scan that meets an error *)

\* the permission notice of scan() has been printed
NoticePrinted == \E k \in 1..Len(out.lines) : out.lines[k] = Notice

\* the same records, possibly in another order
SameRecords(a, b) ==
    /\ Len(a) = Len(b)
    /\ \A i \in 1..Len(a) : \E j \in 1..Len(b) : a[i] = b[j]
    /\ \A j \in 1..Len(b) : \E i \in 1..Len(a) : a[i] = b[j]

\* C14: when a permission error ends the enumeration of the scan root, at
\* whatever point, scan() does not raise: the step that prints the notice leaves
\* the list of records as it was and returns to the entry point, no error is
\* written, and the entry point then reports exactly those records and exits
\* with code 0.
C14_PermissionErrorKeepsResult ==
    [][/\ ~NoticePrinted /\ NoticePrinted' =>
            /\ repositories' = repositories
            /\ pc' = "report"
            /\ out'.err = out.err
            /\ out'.exit = -1
       /\ NoticePrinted /\ pc = "report" =>
            /\ pc' = "exit"
            /\ out'.exit = 0
            /\ out'.err = <<>>
            /\ SameRecords(repositories', repositories)
            /\ variant = "gitStatus" => out'.shown = repositories']_vars

C14_Witness ==
    /\ Exited(0)
    /\ NoticePrinted
    /\ variant = "gitStatus"
    /\ Len(tree.dirs[HomeGitHub].children) = 2
    /\ \A i \in 1..2 : /\ tree.dirs[HomeGitHub].children[i].has_git
                        /\ ~IsHidden(tree.dirs[HomeGitHub].children[i].name)
    /\ ~repo.raised
    /\ Len(repositories) = 1
    /\ repositories[1].path = HomeGitHub \o "/" \o tree.dirs[HomeGitHub].children[1].name
    /\ \A i \in 1..Len(queries) : queries[i].cwd = repositories[1].path

-----------------------------------------------------------------------------
(* Claims about what a scan returns *)

\* the resolved scan root of the run
ScanRootPath == ScannerPath(variant, args)

\* the immediate children of the scan root that are directories with a name that
\* does not begin with '.'
VisibleChildDirs ==
    {ScanRootPath \o "/" \o tree.dirs[ScanRootPath].children[i].name :
        i \in {k \in 1..Len(tree.dirs[ScanRootPath].children) :
                  /\ tree.dirs[ScanRootPath].children[k].is_dir
                  /\ CharAt(tree.dirs[ScanRootPath].children[k].name, 1) # "."}}

\* the scan root holds a directory that holds a repository one level further down
HasNestedRepo ==
    \E i \in 1..Len(tree.dirs[ScanRootPath].children) :
        tree.dirs[ScanRootPath].children[i].nested

\* C15 as stated: every record of the scan result is an immediate child of the
\* scan root that is a directory with a name not beginning with '.'; the scan
\* root itself never appears.
C15_AsStated ==
    \A i \in 1..Len(repositories) : repositories[i].path \in VisibleChildDirs

\* C15 amended: every record of the scan result is an immediate child of the scan
\* root that is a directory with a name not beginning with '.', or, in run.py
\* only, the scan root itself, as the first record, when it holds a '.git' entry;
\* gitStatus.py never returns the scan root, and no directory below the first
\* level is returned by either.
C15_ChildrenAndRunRoot ==
    \A i \in 1..Len(repositories) :
        \/ repositories[i].path \in VisibleChildDirs
        \/ /\ variant = "run"
           /\ i = 1
           /\ repositories[i].path = ScanRootPath
           /\ tree.dirs[ScanRootPath].has_git

C15_Witness ==
    /\ Exited(0)
    /\ variant = "run"
    /\ tree.dirs[ScanRootPath].has_git
    /\ HasNestedRepo
    /\ Len(tree.dirs[ScanRootPath].children) = 2
    /\ tree.dirs[ScanRootPath].children[1].name = ".h"
    /\ Len(repositories) = 2
    /\ repositories[1].path = ScanRootPath
    /\ repositories[2].path = ScanRootPath \o "/B"

-----------------------------------------------------------------------------
(* Claims about the counts of a record *)

\* the text, its surrounding whitespace aside, is a non-negative decimal number
IsDecimal(text) ==
    /\ Strip(text) # ""
    /\ \A i \in 1..Len(Strip(text)) : IsDigit(CharAt(Strip(text), i))

\* C16 as stated: for every record and every text the tool returns, the five
\* counts are non-negative, and a counting query whose output is not a
\* non-negative decimal number gives 0.
C16_AsStated ==
    Inspected =>
        /\ repo.rec.ahead_count >= 0
        /\ repo.rec.behind_count >= 0
        /\ repo.rec.changed_count >= 0
        /\ repo.rec.untracked_count >= 0
        /\ repo.rec.total_commits >= 0
        /\ ~IsDecimal(git.ahead.stdout) => repo.rec.ahead_count = 0
        /\ ~IsDecimal(git.behind.stdout) => repo.rec.behind_count = 0
        /\ ~IsDecimal(git.total.stdout) => repo.rec.total_commits = 0

-----------------------------------------------------------------------------
(* Claims about the order of the queries *)

\* the commands of the queries issued so far, in order
IssuedCmds == [i \in 1..Len(queries) |-> queries[i].cmd]

\* the places of a command among the queries issued so far
Places(cmd) == {i \in 1..Len(queries) : queries[i].cmd = cmd}

\* C17 as stated: the working-tree validity check is the first query issued
\* against a directory; the branch, remote, ahead/behind, status and total-commits
\* queries all come after it.
C17_AsStated ==
    Inspected =>
        /\ queries[1].cmd = CmdInside
        /\ \A i \in Places(CmdInside) : \A j \in 1..Len(queries) :
              queries[j].cmd # CmdInside => i < j

\* C17 amended: for each inspected directory the queries are issued in the order
\* of the constructor's assignments: the branch query, the remote query, the
\* upstream query and (when it succeeds) the ahead rev-list, the upstream query
\* and (when it succeeds) the behind rev-list, the status query twice, in run.py
\* the total-commits query, and the working-tree validity check last: every other
\* query is issued before the validity check.
C17_ValidityCheckLast ==
    Inspected =>
        IssuedCmds =
            <<CmdBranch, CmdRemote, CmdUpstream>>
            \o (IF git.upstream_a.kind = "ok"
                THEN <<"rev-list --count " \o Strip(git.upstream_a.stdout) \o "..HEAD">>
                ELSE <<>>)
            \o <<CmdUpstream>>
            \o (IF git.upstream_b.kind = "ok"
                THEN <<"rev-list --count HEAD.." \o Strip(git.upstream_b.stdout)>>
                ELSE <<>>)
            \o <<CmdStatus, CmdStatus>>
            \o (IF variant = "run" THEN <<CmdTotal>> ELSE <<>>)
            \o <<CmdInside>>

C17_Witness ==
    /\ Inspected
    /\ variant = "run"
    /\ git.inside = Ok("false\n")
    /\ Len(queries) = 10
    /\ queries[1].cmd = CmdBranch
    /\ queries[9].cmd = CmdTotal
    /\ queries[10].cmd = CmdInside
    /\ ~repo.rec.is_valid

-----------------------------------------------------------------------------
(* Claims about repeated scans *)

\* a call of scan() has returned
ScanReturned == pc = "report"

\* C18 as stated: after any number of calls of scan() on the same GitScanner over
\* an unchanged tree, the returned list holds at most one record per directory
\* path.
C18_AsStated ==
    ScanReturned =>
        \A i, j \in 1..Len(repositories) :
            i # j => repositories[i].path # repositories[j].path

====
